---- MODULE Spec2Model ----
(***************************************************************************)
(* A model of main.py, the blood pressure bot: module start-up             *)
(* (configuration, Firebase initialisation, the __main__ guard), the       *)
(* Telegram handlers start / image_handler / error_handler, the Gemini     *)
(* extraction get_bp_from_image and the Firestore write                    *)
(* save_reading_to_firestore.                                              *)
(*                                                                         *)
(* Python values are tagged records ([py |-> "None"], [py |-> "int", ...]).*)
(* A text is a sequence of fragments.  Outbound delivery by the Telegram   *)
(* API (context.bot.send_message) is taken to succeed.                     *)
(***************************************************************************)
EXTENDS Integers, Sequences, FiniteSets, TLC

\* Number of updates the dispatcher hands to handlers in one run.
MaxEvents == 2

-----------------------------------------------------------------------------
(* Python values *)

PyNone == [py |-> "None"]
PyInt(n) == [py |-> "int", n |-> n]
\* the float n + 0.5
PyFloat(n) == [py |-> "float", floor |-> n]
PyStr(s) == [py |-> "str", s |-> s]
PyList(k) == [py |-> "list", len |-> k]
\* items is a function from key strings to Python values
PyDict(items) == [py |-> "dict", items |-> items]

\* Strings that int() parses, with their values.
Numerals == ("42" :> 42) @@ ("7" :> 7) @@ ("120" :> 120)

\* a test against None where the code tests truth
TruthyNotNone(x) == x.py # "None"

\* bool(x) for the values that occur
Truthy(x) ==
    CASE x.py = "None" -> FALSE
      [] x.py = "int" -> x.n # 0
      [] x.py = "float" -> TRUE
      [] x.py = "str" -> x.s # ""
      [] x.py = "list" -> x.len > 0
      [] x.py = "dict" -> DOMAIN x.items # {}
      [] OTHER -> TRUE

\* int(x) raises TypeError / ValueError
IntRaises(x) ==
    CASE x.py = "int" -> FALSE
      [] x.py = "float" -> FALSE
      [] x.py = "str" -> x.s \notin DOMAIN Numerals
      [] OTHER -> TRUE

\* int(x) where it does not raise
IntOf(x) ==
    CASE x.py = "int" -> x.n
      [] x.py = "float" -> x.floor
      [] x.py = "str" -> Numerals[x.s]
      [] OTHER -> 0

\* x.get(...) raises AttributeError unless x is a dict
HasGet(x) == x.py = "dict"

\* d.get(k, default) on a dict d
GetOr(d, k, default) == IF k \in DOMAIN d.items THEN d.items[k] ELSE default

\* d.get(k) on a dict d
Get(d, k) == GetOr(d, k, PyNone)

-----------------------------------------------------------------------------
(* Texts *)

Lit(s) == [lit |-> s]
\* an f-string field {v}
Fmt(v) == [fmt |-> v]
Contains(text, frag) == \E i \in 1..Len(text) : text[i] = frag

RejectionText == <<Lit("Sorry, you are not authorized to use this bot.")>>
NeedImageText == <<Lit("Please send an image file.")>>
ProcessingText == <<Lit("Processing your image, please wait...")>>
GreetingText ==
    <<Lit("Hello! I'm your Blood Pressure reading assistant. Send me a clear picture of your BP monitor's screen.")>>
SavedNote == Lit("*Data saved to database.*")
NotSavedNote == Lit("*Could not save data to database.*")
PartialNote == Lit("*Not saved to database because some values are missing.*")
ClearerPictureText ==
    <<Lit("Sorry, I couldn't read the values. Please try a clearer picture.")>>
NA == PyStr("N/A")
ErrorMarker ==
    PyDict([error |-> PyStr("Could not process the image or parse the response.")])

-----------------------------------------------------------------------------
(* The launch environment and the inputs the outside world supplies *)

\* os.getenv gives None or a string
EnvStrings(S) == {PyNone} \cup {PyStr(s) : s \in S}
Environments ==
    [GEMINI_API_KEY : EnvStrings({"g-key"}),
     TELEGRAM_BOT_TOKEN : EnvStrings({"t-token"}),
     TELEGRAM_USER_ID : EnvStrings({"42", "owner"}),
     credentials_file : BOOLEAN]

ChatIds == {42, 7}
\* what filters.PHOTO and CommandHandler('start') look at
Updates == [chat_id : ChatIds, kind : {"/start", "photo", "text"}]

FieldVals == {PyNone, PyInt(120), PyInt(80), PyFloat(120), PyStr("high")}
ValueDicts ==
    {PyDict(f) : f \in UNION {[K -> FieldVals] : K \in SUBSET {"SBP", "DBP", "HR"}}}
ValuesObjs == {PyNone, PyList(3)} \cup ValueDicts
Statuses == {PyStr("success"), PyStr("failed"), PyStr("unknown")}
\* the JSON documents the model may answer with
Docs ==
    {PyDict([status |-> s, values |-> v]) : s \in Statuses, v \in ValuesObjs}
    \cup {PyDict([status |-> s]) : s \in Statuses}
    \cup {PyDict([values |-> v]) : v \in ValuesObjs}
    \cup {PyDict(<<>>), PyList(0), PyList(2), PyStr("hello"), PyInt(120), PyNone}

\* the opening code fence with its json tag, and the bare code fence
FenceJson == [tok |-> "fence-json"]
Fence == [tok |-> "fence"]
Ws == [tok |-> "ws"]
Junk == [tok |-> "junk"]
Json(d) == [tok |-> "json", doc |-> d]
Texts ==
    {<<Json(d)>> : d \in Docs}
    \cup {<<FenceJson, Ws, Json(d), Ws, Fence, Ws>> : d \in Docs}
    \cup {<<Junk>>, <<FenceJson, Ws, Junk, Ws, Fence>>, <<>>}
\* generate_content_async raises, or response.text raises, or there is a text
Responses ==
    {[kind |-> "raise"], [kind |-> "notext"]}
    \cup {[kind |-> "text", text |-> t] : t \in Texts}
\* json_repair.loads on text that holds no JSON: the empty string, or it raises
RepairOutcomes == {"empty", "raise"}
ImageBytes == {"jpeg", "undecodable"}

-----------------------------------------------------------------------------
(* get_bp_from_image *)

RECURSIVE LStrip(_)
LStrip(t) == IF t # <<>> /\ Head(t) = Ws THEN LStrip(Tail(t)) ELSE t
RECURSIVE RStrip(_)
RStrip(t) ==
    IF t # <<>> /\ t[Len(t)] = Ws THEN RStrip(SubSeq(t, 1, Len(t) - 1)) ELSE t
\* str.strip()
Strip(t) == RStrip(LStrip(t))
\* str.replace(old, "")
Remove(t, old) == SelectSeq(t, LAMBDA x : x # old)
\* response.text.strip(), then both fence markers replaced by ""
CleanedText(t) == Remove(Remove(Strip(t), FenceJson), Fence)

\* json_repair.loads
json_repair_loads(cleaned_text, repair) ==
    LET body == Remove(cleaned_text, Ws)
    IN  IF Len(body) = 1 /\ body[1].tok = "json"
        THEN [raised |-> FALSE, data |-> body[1].doc]
        ELSE IF repair = "raise"
        THEN [raised |-> TRUE, data |-> PyNone]
        ELSE [raised |-> FALSE, data |-> PyStr("")]

\* the body of get_bp_from_image: raised means the exception leaves the function,
\* called means the model API was invoked
get_bp_from_image(image_bytes, response, repair) ==
    IF image_bytes = "undecodable"
    THEN [raised |-> TRUE, called |-> FALSE, data |-> PyNone]
    ELSE IF response.kind # "text"
    THEN [raised |-> FALSE, called |-> TRUE, data |-> ErrorMarker]
    ELSE LET parsed == json_repair_loads(CleanedText(response.text), repair)
         IN  IF parsed.raised
             THEN [raised |-> FALSE, called |-> TRUE, data |-> ErrorMarker]
             ELSE [raised |-> FALSE, called |-> TRUE, data |-> parsed.data]

-----------------------------------------------------------------------------
(* State *)

VARIABLES
    env,            \* the environment variables and files the process is launched with
    phase,          \* "launch", "loaded", "polling" or "aborted"
    TELEGRAM_USER_ID, GEMINI_API_KEY, TELEGRAM_BOT_TOKEN,   \* module globals
    db,             \* module global: the Firestore client, or None
    store,          \* the documents of the 'readings' collection, in creation order
    handled,        \* number of updates dispatched so far
    pc,             \* position of the handler of the current update
    update,         \* the current update
    sent,           \* messages sent for the current update, in order
    steps,          \* external calls made for the current update, in order
    saves,          \* the calls of save_reading_to_firestore: arguments and return value
    store_before,   \* the collection as it was when the current update arrived
    photo_bytes,    \* local of image_handler
    response,       \* the model's answer to the current update
    bp_data,        \* local of image_handler
    logged          \* number of exceptions error_handler has logged

vars ==
    <<env, phase, TELEGRAM_USER_ID, GEMINI_API_KEY, TELEGRAM_BOT_TOKEN, db, store,
      handled, pc, update, sent, steps, saves, store_before, photo_bytes, response, bp_data, logged>>

globals == <<TELEGRAM_USER_ID, GEMINI_API_KEY, TELEGRAM_BOT_TOKEN, db>>
locals == <<photo_bytes, response, bp_data>>

Unset == [py |-> "unset"]
FirestoreClient == [py |-> "firestore.Client"]
NoUpdate == [chat_id |-> 0, kind |-> "none"]
NoResponse == [kind |-> "none"]

Init ==
    /\ env \in Environments
    /\ phase = "launch"
    /\ TELEGRAM_USER_ID = Unset
    /\ GEMINI_API_KEY = Unset
    /\ TELEGRAM_BOT_TOKEN = Unset
    /\ db = Unset
    /\ store = <<>>
    /\ handled = 0
    /\ pc = "idle"
    /\ update = NoUpdate
    /\ sent = <<>>
    /\ steps = <<>>
    /\ saves = <<>>
    /\ store_before = <<>>
    /\ photo_bytes = "none"
    /\ response = NoResponse
    /\ bp_data = PyNone
    /\ logged = 0

-----------------------------------------------------------------------------
(* save_reading_to_firestore and the inspection of the extraction result *)

\* the write goes to one fixed document instead of a new one
save_reading_overwriting(sbp, dbp, hr, set_ok) ==
    LET doc == [timestamp |-> handled, sbp |-> IntOf(sbp), dbp |-> IntOf(dbp),
                hr |-> IntOf(hr)]
    IN  IF IntRaises(sbp) \/ IntRaises(dbp) \/ IntRaises(hr) \/ ~set_ok
        THEN [ret |-> FALSE, store |-> store]
        ELSE [ret |-> TRUE,
              store |-> IF store = <<>>
                        THEN <<doc>>
                        ELSE [store EXCEPT ![Len(store)] = doc]]

\* the failure of the write is swallowed and success reported
save_reading_reporting_success(sbp, dbp, hr, set_ok) ==
    IF IntRaises(sbp) \/ IntRaises(dbp) \/ IntRaises(hr) \/ ~set_ok
    THEN [ret |-> TRUE, store |-> store]
    ELSE [ret |-> TRUE,
          store |-> Append(store, [timestamp |-> handled, sbp |-> IntOf(sbp),
                                   dbp |-> IntOf(dbp), hr |-> IntOf(hr)])]

\* set_ok: doc_ref.set returns rather than raises
save_reading_to_firestore(sbp, dbp, hr, set_ok) ==
    IF ~Truthy(db)
    THEN [ret |-> FALSE, store |-> store]
    ELSE IF IntRaises(sbp) \/ IntRaises(dbp) \/ IntRaises(hr) \/ ~set_ok
    THEN [ret |-> FALSE, store |-> store]
    ELSE [ret |-> TRUE,
          store |-> Append(store, [timestamp |-> handled, sbp |-> IntOf(sbp),
                                   dbp |-> IntOf(dbp), hr |-> IntOf(hr)])]

\* the heart rate is left out of the completeness test
AllPresentButHr(sbp, dbp, hr) == sbp # PyNone /\ dbp # PyNone

\* sbp is not None and dbp is not None and hr is not None
AllPresent(sbp, dbp, hr) == sbp # PyNone /\ dbp # PyNone /\ hr # PyNone

CompleteReply(sbp, dbp, hr, save_successful) ==
    <<Lit("**Blood Pressure Reading Extracted**"),
      Lit("**Systolic (SBP):**"), Fmt(sbp),
      Lit("**Diastolic (DBP):**"), Fmt(dbp),
      Lit("**Heart Rate (HR):**"), Fmt(hr),
      IF save_successful THEN SavedNote ELSE NotSavedNote>>

\* x if x is not None else 'N/A'
OrNA(x) == IF x # PyNone THEN x ELSE NA

PartialReply(sbp, dbp, hr) ==
    <<Lit("**Partial Reading Extracted**"),
      Lit("**Systolic (SBP):**"), Fmt(OrNA(sbp)),
      Lit("**Diastolic (DBP):**"), Fmt(OrNA(dbp)),
      Lit("**Heart Rate (HR):**"), Fmt(OrNA(hr)),
      PartialNote>>

GenericReply(data) == <<Lit("Sorry, something went wrong. Data is"), Fmt(data)>>

TraceReply == <<Lit("Error encountered:"), [traceback |-> "AttributeError"]>>

\* the value of the expression 'status' == "failed", as a dictionary key
FailedKey == IF "status" = "failed" THEN "True" ELSE "False"

Raise == [raised |-> TRUE, reply_text |-> <<>>, saves |-> <<>>, store |-> store]
Reply(text) == [raised |-> FALSE, reply_text |-> text, saves |-> <<>>, store |-> store]

\* the body of image_handler's try block
InspectResult(data, set_ok) ==
    IF Truthy(data) /\ ~HasGet(data)
    THEN Raise
    ELSE IF Truthy(data) /\ Get(data, "status") = PyStr("success")
    THEN LET values == GetOr(data, "values", PyDict(<<>>))
         IN  IF ~HasGet(values)
             THEN Raise
             ELSE LET sbp == Get(values, "SBP")
                      dbp == Get(values, "DBP")
                      hr == Get(values, "HR")
                      saved == save_reading_to_firestore(sbp, dbp, hr, set_ok)
                  IN  IF AllPresent(sbp, dbp, hr)
                      THEN [raised |-> FALSE,
                            reply_text |-> CompleteReply(sbp, dbp, hr, saved.ret),
                            saves |-> <<[sbp |-> sbp, dbp |-> dbp, hr |-> hr,
                                         ret |-> saved.ret]>>,
                            store |-> saved.store]
                      ELSE Reply(PartialReply(sbp, dbp, hr))
    ELSE IF Truthy(data) /\ Truthy(Get(data, FailedKey))
    THEN Reply(ClearerPictureText)
    ELSE Reply(GenericReply(data))

\* the try block without its except clause
InspectResultUncaught(data, set_ok) == InspectResult(data, set_ok)

\* try ... except Exception: the exception becomes the reply
TryInspectResult(data, set_ok) ==
    LET r == InspectResult(data, set_ok)
    IN  IF r.raised THEN [r EXCEPT !.raised = FALSE, !.reply_text = TraceReply] ELSE r

-----------------------------------------------------------------------------
(* Start-up *)

\* the module body: os.getenv, genai.configure, Firebase initialisation
LoadModule ==
    /\ phase = "launch"
    /\ GEMINI_API_KEY' = env.GEMINI_API_KEY
    /\ TELEGRAM_BOT_TOKEN' = env.TELEGRAM_BOT_TOKEN
    /\ TELEGRAM_USER_ID' = env.TELEGRAM_USER_ID
    /\ IF env.credentials_file
       THEN db' = FirestoreClient /\ phase' = "loaded"
       ELSE db' = PyNone /\ phase' = "aborted"
    /\ UNCHANGED <<env, store, handled, pc, update, sent, steps, saves, store_before,
                   locals, logged>>

\* the __main__ block
Main ==
    /\ phase = "loaded"
    /\ phase' = IF ~Truthy(GEMINI_API_KEY) \/ ~Truthy(TELEGRAM_BOT_TOKEN)
                THEN "aborted"
                ELSE "polling"
    /\ UNCHANGED <<env, globals, store, handled, pc, update, sent, steps, saves,
                   store_before, locals, logged>>

-----------------------------------------------------------------------------
(* Handlers *)

\* the handler the application routes an update to
Route(u) ==
    CASE u.kind = "/start" -> "start"
      [] u.kind = "photo" -> "image_handler"
      [] OTHER -> "idle"

\* run_polling hands the next update to its handler
Dispatch(u) ==
    /\ phase = "polling"
    /\ pc \in {"idle", "done", "errored"}
    /\ handled < MaxEvents
    /\ handled' = handled + 1
    /\ update' = u
    /\ pc' = Route(u)
    /\ sent' = <<>>
    /\ steps' = <<>>
    /\ saves' = <<>>
    /\ store_before' = store
    /\ photo_bytes' = "none"
    /\ response' = NoResponse
    /\ bp_data' = PyNone
    /\ UNCHANGED <<env, phase, globals, store, logged>>

Send(text) ==
    /\ sent' = Append(sent, text)
    /\ steps' = Append(steps, "send_message")

start ==
    /\ pc = "start"
    /\ Send(GreetingText)
    /\ pc' = "done"
    /\ UNCHANGED <<env, phase, globals, store, handled, update, saves, store_before,
                   locals, logged>>

\* image_handler up to its first reply: authorisation, photo check, progress note
image_handler_enter ==
    /\ pc = "image_handler"
    /\ IF IntRaises(TELEGRAM_USER_ID)
       THEN pc' = "raised" /\ UNCHANGED <<sent, steps>>
       ELSE IF update.chat_id # IntOf(TELEGRAM_USER_ID)
       THEN Send(RejectionText) /\ pc' = "done"
       ELSE IF update.kind # "photo"
       THEN Send(NeedImageText) /\ pc' = "done"
       ELSE Send(ProcessingText) /\ pc' = "get_file"
    /\ UNCHANGED <<env, phase, globals, store, handled, update, saves, store_before,
                   locals, logged>>

\* update.message.photo[-1].get_file()
image_handler_get_file ==
    /\ pc = "get_file"
    /\ \E ok \in BOOLEAN : pc' = IF ok THEN "download" ELSE "raised"
    /\ steps' = Append(steps, "get_file")
    /\ UNCHANGED <<env, phase, globals, store, handled, update, sent, saves,
                   store_before, locals, logged>>

\* photo_file.download_as_bytearray()
image_handler_download ==
    /\ pc = "download"
    /\ \E ok \in BOOLEAN, b \in ImageBytes :
          /\ pc' = IF ok THEN "extract" ELSE "raised"
          /\ photo_bytes' = IF ok THEN b ELSE "none"
    /\ steps' = Append(steps, "download_as_bytearray")
    /\ UNCHANGED <<env, phase, globals, store, handled, update, sent, saves,
                   store_before, response, bp_data, logged>>

\* bp_data = await get_bp_from_image(bytes(photo_bytes))
image_handler_extract ==
    /\ pc = "extract"
    /\ \E r \in Responses, repair \in RepairOutcomes :
          LET g == get_bp_from_image(photo_bytes, r, repair)
          IN  /\ pc' = IF g.raised THEN "raised" ELSE "inspect"
              /\ bp_data' = g.data
              /\ response' = IF g.called THEN r ELSE NoResponse
              /\ steps' = IF g.called
                          THEN Append(steps, "generate_content_async")
                          ELSE steps
    /\ UNCHANGED <<env, phase, globals, store, handled, update, sent, saves,
                   store_before, photo_bytes, logged>>

\* the try / except / finally of image_handler
image_handler_reply ==
    /\ pc = "inspect"
    /\ \E set_ok \in BOOLEAN :
          LET r == TryInspectResult(bp_data, set_ok)
              called == steps \o [i \in 1..Len(r.saves) |-> "save_reading_to_firestore"]
          IN  /\ store' = r.store
              /\ saves' = r.saves
              /\ IF r.raised
                 THEN pc' = "raised" /\ sent' = sent /\ steps' = called
                 ELSE /\ pc' = "done"
                      /\ sent' = Append(sent, r.reply_text)
                      /\ steps' = Append(called, "send_message")
    /\ UNCHANGED <<env, phase, globals, handled, update, store_before, locals, logged>>

\* an exception left the handler: the application passes it to error_handler
error_handler ==
    /\ pc = "raised"
    /\ logged' = logged + 1
    /\ pc' = "errored"
    /\ UNCHANGED <<env, phase, globals, store, handled, update, sent, steps, saves,
                   store_before, locals>>

Next ==
    \/ LoadModule
    \/ Main
    \/ \E u \in Updates : Dispatch(u)
    \/ start
    \/ image_handler_enter
    \/ image_handler_get_file
    \/ image_handler_download
    \/ image_handler_extract
    \/ image_handler_reply
    \/ error_handler

Spec == Init /\ [][Next]_vars

-----------------------------------------------------------------------------
(* Vocabulary of the properties *)

\* the handler of the current update has ended, by return or by exception
Finished == pc \in {"done", "errored"}
\* get_bp_from_image returned and the try block of image_handler has run
Inspected == pc \in {"done", "raised", "errored"} /\ photo_bytes = "jpeg"
\* the sender of the current update is not the configured identity
Unauthorized ==
    \/ TELEGRAM_USER_ID.py # "str"
    \/ TELEGRAM_USER_ID.s \notin DOMAIN Numerals
    \/ update.chat_id # Numerals[TELEGRAM_USER_ID.s]
LastReply == sent[Len(sent)]
NoRecordWritten == store = store_before /\ saves = <<>>

IsDict(d) == d.py = "dict"
HasKey(d, k) == IsDict(d) /\ k \in DOMAIN d.items
StatusIs(d, s) == HasKey(d, "status") /\ d.items["status"] = PyStr(s)
\* the member k of the values object is there and is not null
Present(d, k) ==
    /\ HasKey(d, "values")
    /\ HasKey(d.items["values"], k)
    /\ d.items["values"].items[k] # PyNone
Field(d, k) == d.items["values"].items[k]
Fields == {"SBP", "DBP", "HR"}
CompleteResult(d) == StatusIs(d, "success") /\ \A k \in Fields : Present(d, k)
\* status=success and at least one of SBP, DBP, HR null or absent
IncompleteResult(d) == StatusIs(d, "success") /\ \E k \in Fields : ~Present(d, k)
\* the values member is an object, or there is no values member
ValuesIsObjectOrMissing(d) ==
    IsDict(d) /\ (HasKey(d, "values") => IsDict(d.items["values"]))
Shown(d, k) == IF Present(d, k) THEN Fmt(Field(d, k)) ELSE Fmt(NA)
\* the text has no JSON document in it
Garbage(r) ==
    r.kind = "text" /\ \A i \in 1..Len(r.text) : r.text[i].tok # "json"

-----------------------------------------------------------------------------
(* Properties *)

C1_State ==
    /\ Inspected /\ CompleteResult(bp_data) =>
          /\ Len(saves) = 1
          /\ saves[1].sbp = Field(bp_data, "SBP")
          /\ saves[1].dbp = Field(bp_data, "DBP")
          /\ saves[1].hr = Field(bp_data, "HR")
          /\ Len(SelectSeq(steps, LAMBDA x : x = "save_reading_to_firestore")) = 1
    /\ Len(store) <= Len(store_before) + Len(saves)
    /\ Len(saves) <= 1
C1_Step ==
    \/ store' = store
    \/ Len(store') = Len(store) + 1 /\ SubSeq(store', 1, Len(store)) = store
\* C1: an authorised photo whose result has status=success and SBP, DBP and HR all
\* present makes image_handler call save_reading_to_firestore exactly once, with
\* exactly the three extracted values; an update adds at most one record, and only
\* through such a call; a record once in the store is never changed or removed.
C1_SavedExactlyOnce == []C1_State /\ [][C1_Step]_vars
\* a complete result arrives when the store already holds a record, and is stored
C1_Witness ==
    /\ Inspected /\ CompleteResult(bp_data)
    /\ Len(store_before) >= 1
    /\ Len(store) = Len(store_before) + 1

\* C2 as stated: every result with status=success in which one of SBP, DBP, HR is
\* null or absent is never saved and is answered by the partial reply, with N/A for
\* each missing value and the note that nothing was saved.
C2_AsStated ==
    Inspected /\ IncompleteResult(bp_data) =>
        /\ NoRecordWritten
        /\ Finished /\ sent # <<>>
        /\ LastReply = <<Lit("**Partial Reading Extracted**"),
                         Lit("**Systolic (SBP):**"), Shown(bp_data, "SBP"),
                         Lit("**Diastolic (DBP):**"), Shown(bp_data, "DBP"),
                         Lit("**Heart Rate (HR):**"), Shown(bp_data, "HR"),
                         PartialNote>>
\* C2, amended: the same, for the results whose values member is an object or is
\* missing; in every case of C2 no record is written.
C2_PartialNeverSaved ==
    /\ Inspected /\ IncompleteResult(bp_data) => NoRecordWritten
    /\ Inspected /\ IncompleteResult(bp_data) /\ ValuesIsObjectOrMissing(bp_data) =>
          C2_AsStated
\* a result with the diastolic value null and the other two present was answered
C2_Witness ==
    /\ Inspected /\ IncompleteResult(bp_data)
    /\ Present(bp_data, "SBP") /\ ~Present(bp_data, "DBP") /\ Present(bp_data, "HR")
    /\ HasKey(bp_data.items["values"], "DBP")
    /\ Contains(LastReply, Fmt(NA))

\* C3: a photo from a sender other than the configured identity gets the rejection
\* text as its only reply, and nothing else happens: no image fetch, no model call,
\* no store write; for every configuration the process runs with.
C3_UnauthorizedRejected ==
    Finished /\ update.kind = "photo" /\ Unauthorized =>
        /\ sent = <<RejectionText>>
        /\ steps = <<"send_message">>
        /\ NoRecordWritten

C5_FailedSaveReported ==
    /\ Inspected /\ CompleteResult(bp_data) /\ saves # <<>> /\ ~saves[1].ret =>
          /\ pc = "done" /\ sent # <<>>
          /\ LastReply[3] = Fmt(Field(bp_data, "SBP"))
          /\ LastReply[5] = Fmt(Field(bp_data, "DBP"))
          /\ LastReply[7] = Fmt(Field(bp_data, "HR"))
          /\ Contains(LastReply, NotSavedNote)
          /\ ~Contains(LastReply, SavedNote)
          /\ store = store_before
    /\ \A i \in 1..Len(sent) :
          Contains(sent[i], SavedNote) =>
              /\ Len(store) = Len(store_before) + 1
              /\ CompleteResult(bp_data)
              /\ store[Len(store)].sbp = IntOf(Field(bp_data, "SBP"))
              /\ store[Len(store)].dbp = IntOf(Field(bp_data, "DBP"))
              /\ store[Len(store)].hr = IntOf(Field(bp_data, "HR"))
\* three integer values were extracted and the write itself failed
C5_Witness ==
    /\ Inspected /\ CompleteResult(bp_data)
    /\ \A k \in Fields : Field(bp_data, k).py = "int"
    /\ saves # <<>> /\ ~saves[1].ret
    /\ Contains(LastReply, NotSavedNote)

\* C6: an update that reaches the pipeline (authorised sender, photo attached) gets
\* exactly one message, sent after all processing ended.
C6_ExactlyOneReply ==
    Finished /\ update.kind = "photo" /\ ~Unauthorized =>
        /\ Len(sent) = 1
        /\ steps[Len(steps)] = "send_message"
        /\ Len(SelectSeq(steps, LAMBDA x : x = "send_message")) = 1

\* C7: a result with status=failed is answered by the apology that asks for a
\* clearer picture, without the raw result, and no record is written.
C7_FailedBranch ==
    Inspected /\ StatusIs(bp_data, "failed") =>
        /\ pc = "done" /\ sent # <<>>
        /\ LastReply = ClearerPictureText
        /\ ~Contains(LastReply, Fmt(bp_data))
        /\ NoRecordWritten

\* C8: get_bp_from_image never raises: once the image bytes are there, the handler
\* goes on to its reply step.
C8_ExtractionNeverRaises ==
    photo_bytes # "none" => pc \in {"extract", "inspect", "done"}

\* C9: the process handles updates only if every required configuration value is
\* there: both credentials, the authorised identity and the store client.
C9_NoStartWithoutConfig ==
    phase = "polling" =>
        /\ env.GEMINI_API_KEY # PyNone /\ Truthy(GEMINI_API_KEY)
        /\ env.TELEGRAM_BOT_TOKEN # PyNone /\ Truthy(TELEGRAM_BOT_TOKEN)
        /\ env.TELEGRAM_USER_ID # PyNone /\ TELEGRAM_USER_ID # PyNone
        /\ env.credentials_file /\ db = FirestoreClient

\* a result whose inspection raises: not a dictionary, or values not an object
Malformed(d) ==
    \/ Truthy(d) /\ ~IsDict(d)
    \/ StatusIs(d, "success") /\ HasKey(d, "values") /\ ~IsDict(d.items["values"])
\* C10: no exception leaves the inspection of the extraction result: the update
\* gets its final reply, and for a malformed result that reply is the failure
\* trace and no record is written.
C10_InspectionNeverPropagates ==
    Inspected =>
        /\ pc = "done"
        /\ Len(sent) = 2
        /\ steps[Len(steps)] = "send_message"
        /\ Malformed(bp_data) =>
              /\ LastReply[1] = Lit("Error encountered:")
              /\ LastReply = TraceReply
              /\ NoRecordWritten
\* status=success with values null was answered
C10_Witness ==
    /\ Inspected /\ Malformed(bp_data)
    /\ StatusIs(bp_data, "success")
    /\ bp_data.items["values"] = PyNone
    /\ pc = "done"

====
